---- MODULE Spec2Model ----
(***************************************************************************)
(* NzObject: a multi-tenant object-storage gateway (src/server.js) over a  *)
(* Prisma metadata store (ApiKey, Bucket) and the local file system.       *)
(*                                                                         *)
(* Every request is a process that advances one awaited call at a time:    *)
(* what lies between two awaits of a handler is one atomic step, because   *)
(* Node runs it to completion on one thread.  Names (bucket names, object  *)
(* keys, file names) are sequences of path segments, so that path.join's   *)
(* normalisation of "." and ".." is computed and not assumed away.         *)
(***************************************************************************)
EXTENDS Integers, Sequences, FiniteSets, TLC

VARIABLES
    apiKeys,    \* table ApiKey: accessKeyId -> [secretAccessKey, plan, storageUsed]
    buckets,    \* table Bucket: set of [name, accessKeyId]
    dirs,       \* file system: the directories (paths relative to the cwd)
    files,      \* file system: path -> content of the regular files
    now,        \* Date.now()
    reqs,       \* the request each slot carries (NoReq before it arrives)
    pc,         \* where each request stands in its middleware / handler
    loc,        \* the handler's local variables of each request
    resp,       \* the response each request got (NoResp before)
    entry       \* history: the counters, buckets and files the request found when it arrived

vars == <<apiKeys, buckets, dirs, files, now, reqs, pc, loc, resp, entry>>

-----------------------------------------------------------------------------
(* Bounds of the model *)

\* request slots (each carries one request)
MaxReqs == 4
\* how many requests of the concurrent specification may be in flight
MaxConc == 2
\* how many times the clock advances past the freshness boundary
MaxTicks == 1

Reqs == 1..MaxReqs

-----------------------------------------------------------------------------
(* Program constants *)

STORAGE_ROOT == <<"storage">>

STORAGE_LIMITS == [free |-> 1024 * 1024 * 1024]

\* 15 * 60 * 1000 ms
FreshnessWindow == 900000

-----------------------------------------------------------------------------
(* Values *)

NoResp == [status |-> 0]
NoLoc == [userStorageRoot |-> <<>>, filePath |-> <<>>, fileSize |-> 0,
          newStorageUsed |-> 0, rejected |-> ""]
\* a JavaScript number that may be NaN
Num(n) == [nan |-> FALSE, val |-> n]
NaN == [nan |-> TRUE, val |-> 0]

\* A Buffer: opaque bytes, told apart by id, of the given length.
Buf(id, n) == [type |-> "buffer", id |-> id, len |-> n]
\* A body parsed by bodyParser.json: an object; hasLen says whether it has an
\* integer property "length", len is that property.
Json(hasLen, len) == [type |-> "json", hasLen |-> hasLen, len |-> len]

\* crypto.createHash('md5').update(bytes).digest('hex'): one digest per byte string
Md5(content) == <<"md5", content.id>>

\* crypto.createHmac('sha256', secret).update(msg).digest('hex')
Hmac(secret, msg) == <<"hmac-sha256", secret, msg>>

-----------------------------------------------------------------------------
(* Decimal strings: a header value is a sequence of characters *)

DigitChars == <<"0", "1", "2", "3", "4", "5", "6", "7", "8", "9">>

DigitVal(c) == (CHOOSE i \in 1..10 : DigitChars[i] = c) - 1

IsDigit(c) == \E i \in 1..10 : DigitChars[i] = c

\* String(n) for n >= 0
RECURSIVE ToChars(_)
ToChars(n) == IF n < 10 THEN <<DigitChars[n + 1]>>
              ELSE Append(ToChars(n \div 10), DigitChars[(n % 10) + 1])

\* parseInt(s): the value of the longest prefix of digits, NaN if there is none
RECURSIVE ParseDigits(_, _)
ParseDigits(s, acc) ==
    IF s = <<>> \/ ~IsDigit(Head(s)) THEN acc
    ELSE ParseDigits(Tail(s), acc * 10 + DigitVal(Head(s)))

ParseInt(s) == IF s = <<>> \/ ~IsDigit(Head(s)) THEN NaN ELSE Num(ParseDigits(s, 0))

-----------------------------------------------------------------------------
(* Paths *)

\* path.normalize on segments: "." and "" vanish, ".." removes the segment before
\* it, and stays when there is none to remove (the path leaves the cwd)
RECURSIVE NormalizeOnto(_, _)
NormalizeOnto(done, rest) ==
    IF rest = <<>> THEN done
    ELSE LET s == Head(rest) IN
         IF s = "." \/ s = "" THEN NormalizeOnto(done, Tail(rest))
         ELSE IF s = ".." /\ done # <<>> /\ done[Len(done)] # ".."
              THEN NormalizeOnto(SubSeq(done, 1, Len(done) - 1), Tail(rest))
              ELSE NormalizeOnto(Append(done, s), Tail(rest))

\* path.join(a, b)
PathJoin(a, b) == NormalizeOnto(<<>>, a \o b)

Parent(p) == SubSeq(p, 1, Len(p) - 1)

IsPrefix(p, q) == Len(p) <= Len(q) /\ SubSeq(q, 1, Len(p)) = p

\* every prefix of p, p included
Prefixes(p) == {SubSeq(p, 1, n) : n \in 0..Len(p)}

\* busboy's file name of a multipart part: the base name of what the client sent
Basename(name) == IF name = <<>> THEN <<>> ELSE <<name[Len(name)]>>

-----------------------------------------------------------------------------
(* The file system (fs.promises), on the directories and files of the model *)

Exists(p) == p \in dirs \/ p \in DOMAIN files

\* fs.mkdir(p, {recursive: true}) fails when p or a directory above it is a file
MkdirOk(p) == \A q \in Prefixes(p) : q \notin DOMAIN files

\* fs.writeFile(p, data) creates or replaces the file; it fails on a directory
\* (EISDIR) and below anything that is not a directory (ENOENT, ENOTDIR)
WriteFileOk(p) == p # <<>> /\ p \notin dirs /\ Parent(p) \in dirs

\* fs.stat(p).size: the length of a file (the size of a directory's entry is
\* never used: fs.unlink fails on a directory, and a directory never goes away)
StatSize(p) == IF p \in DOMAIN files THEN files[p].len ELSE 0

\* fs.unlink(p) removes a file; it fails on a directory and on nothing
UnlinkOk(p) == p \in DOMAIN files

Without(f, p) == [q \in DOMAIN f \ {p} |-> f[q]]

\* what fs.writeFile stores for data that is no Buffer: Node before 14 stores
\* String(data), "[object Object]"; later versions throw a TypeError
ObjectString == Buf("[object Object]", 15)

-----------------------------------------------------------------------------
(* The metadata store (Prisma) *)

\* prisma.apiKey.findUnique({ where: { accessKeyId } })
HasKey(id) == id \in DOMAIN apiKeys

\* (mutant) the lookup without the owner: where: { name: bucketName }
bucketExistsAnyOwner(accessKeyId, bucketName) ==
    \E b \in buckets : b.name = bucketName

\* bucketExists(accessKeyId, bucketName)
bucketExists(accessKeyId, bucketName) ==
    [name |-> bucketName, accessKeyId |-> accessKeyId] \in buckets

\* STORAGE_LIMITS[plan] is undefined for a plan the table does not name
HasLimit(plan) == plan \in DOMAIN STORAGE_LIMITS

\* (mutant) the limit is looked up under a name the table does not have
ExceedsLimitNoEntry(newStorageUsed, plan) ==
    HasLimit("") /\ newStorageUsed > STORAGE_LIMITS[plan]

\* (mutant) a write that fills the plan exactly is rejected
ExceedsLimitOrFills(newStorageUsed, plan) ==
    HasLimit(plan) /\ newStorageUsed >= STORAGE_LIMITS[plan]

\* newStorageUsed > STORAGE_LIMITS[apiKey.plan]: a BigInt compared with
\* undefined is compared with NaN, which is false
ExceedsLimit(newStorageUsed, plan) ==
    HasLimit(plan) /\ newStorageUsed > STORAGE_LIMITS[plan]

\* persisted counter of every key
Used == [id \in DOMAIN apiKeys |-> apiKeys[id].storageUsed]

-----------------------------------------------------------------------------
(* Requests *)

\* `${req.method}${req.originalUrl}${timestamp}`: one string, the three parts
\* concatenated with nothing between them
UrlOf(q) ==
    CASE q.method = "POST" -> <<"/buckets/">> \o q.bucketName \o <<"/objects">>
      [] q.method = "LIST" -> <<"/buckets">>
      [] OTHER -> <<"/buckets/">> \o q.bucketName \o <<"/objects/">> \o q.objectKey

HttpMethod(q) == IF q.method = "LIST" THEN "GET" ELSE q.method

Descriptor(q) == <<HttpMethod(q)>> \o UrlOf(q) \o q.timestamp

\* header X-Signature of the request: what the client computed with the secret
\* it holds (signKey), absent when it holds none
SignatureOf(q) == Hmac(q.signKey, Descriptor(q))

Request(method, accessId, signKey, timestamp, bucketName, objectKey, form, fileName, data) ==
    [method |-> method, accessId |-> accessId, signKey |-> signKey,
     timestamp |-> timestamp, bucketName |-> bucketName, objectKey |-> objectKey,
     form |-> form, fileName |-> fileName, data |-> data]

NoReq == Request("none", "", "", <<>>, <<>>, <<>>, "none", <<>>, Json(FALSE, 0))

Done(r, response) ==
    /\ pc' = [pc EXCEPT ![r] = "done"]
    /\ resp' = [resp EXCEPT ![r] = response]

Goto(r, label) ==
    /\ pc' = [pc EXCEPT ![r] = label]
    /\ UNCHANGED resp

Error(status, message) == [status |-> status, error |-> message]

-----------------------------------------------------------------------------
(* Provisioning (the admin API) and the clock *)

\* crypto.randomBytes: the identifiers and secrets that are drawn, in order
AccessIds == <<"A", "B", "C">>
Secrets == <<"sA", "sB", "sC">>

Plans == {"free", "gold"}

\* POST /admin/create-access-key with a valid X-Admin-API-Key
createAccessKey(plan) ==
    /\ Cardinality(DOMAIN apiKeys) < Len(AccessIds)
    /\ LET n == Cardinality(DOMAIN apiKeys) + 1 IN
       apiKeys' = (AccessIds[n] :> [secretAccessKey |-> Secrets[n], plan |-> plan,
                                    storageUsed |-> 0]) @@ apiKeys
    /\ UNCHANGED <<buckets, dirs, files, now, reqs, pc, loc, resp, entry>>

\* POST /admin/create-bucket with a valid X-Admin-API-Key: the directory of the
\* bucket is made, then its record is created (@@unique([name, accessKeyId]))
createBucket(accessKeyId, bucketName) ==
    /\ HasKey(accessKeyId)
    /\ LET bucketPath == PathJoin(PathJoin(STORAGE_ROOT, <<accessKeyId>>), bucketName) IN
       /\ MkdirOk(bucketPath)
       /\ dirs' = dirs \cup Prefixes(bucketPath)
    /\ ~bucketExists(accessKeyId, bucketName)
    /\ buckets' = buckets \cup {[name |-> bucketName, accessKeyId |-> accessKeyId]}
    /\ UNCHANGED <<apiKeys, files, now, reqs, pc, loc, resp, entry>>

\* the clock starts at Time0 and passes the freshness boundary of the
\* timestamps the clients send
Time0 == 2 * FreshnessWindow

Tick ==
    /\ now < Time0 + MaxTicks
    /\ now' = now + 1
    /\ UNCHANGED <<apiKeys, buckets, dirs, files, reqs, pc, loc, resp, entry>>

-----------------------------------------------------------------------------
(* authenticateRequest, lines 30-64 *)

\* (mutant) the boundary of the freshness window is rejected too
ExpiredAtBoundary(timestamp, t) ==
    LET n == ParseInt(timestamp) IN ~n.nan /\ n.val <= t - FreshnessWindow

\* parseInt(timestamp) < Date.now() - 15 * 60 * 1000 (false for NaN)
Expired(timestamp, t) ==
    LET n == ParseInt(timestamp) IN ~n.nan /\ n.val < t - FreshnessWindow

\* the outcome of the checks of lines 35-57: "" when the request passes
AuthFailure(q) ==
    IF q.accessId = "" \/ q.signKey = "" \/ q.timestamp = <<>>
    THEN "Missing authentication headers"
    ELSE IF ~HasKey(q.accessId) THEN "Invalid Access ID"
    ELSE IF Expired(q.timestamp, now) THEN "Request expired"
    ELSE IF Hmac(apiKeys[q.accessId].secretAccessKey, Descriptor(q)) # SignatureOf(q)
    THEN "Invalid signature"
    ELSE ""

\* the route the request goes to after next()
Route(q) == CASE q.method = "POST" -> "post"
              [] q.method = "GET" -> "get"
              [] q.method = "DELETE" -> "delete"
              [] OTHER -> "list"

\* A request arrives at slot r and goes through the middleware.  The credential
\* lookup is the middleware's only read of shared state and the secret of a key
\* never changes, so the middleware is one step.  A failing fs.mkdir rejects
\* the middleware's promise, which nothing catches: the request gets no
\* response.  The history records the counters and files the request found.
authenticateRequest(r, q) ==
    /\ pc[r] = "new"
    /\ reqs' = [reqs EXCEPT ![r] = q]
    /\ entry' = [entry EXCEPT ![r] = [used |-> Used, buckets |-> buckets, files |-> files]]
    /\ LET userStorageRoot == PathJoin(STORAGE_ROOT, <<q.accessId>>) IN
       IF AuthFailure(q) # ""
       THEN /\ Done(r, Error(401, AuthFailure(q)))
            /\ UNCHANGED <<dirs, loc>>
       ELSE IF ~MkdirOk(userStorageRoot)
       THEN /\ Goto(r, "hung")
            /\ UNCHANGED <<dirs, loc>>
       ELSE /\ dirs' = dirs \cup Prefixes(userStorageRoot)
            /\ loc' = [loc EXCEPT ![r].userStorageRoot = userStorageRoot]
            /\ Goto(r, Route(q))
    /\ UNCHANGED <<apiKeys, buckets, files, now>>

-----------------------------------------------------------------------------
(* POST /buckets/:bucketName/objects, lines 150-193 *)

BucketPath(r) == PathJoin(loc[r].userStorageRoot, reqs[r].bucketName)

\* fileName: req.file.originalname of an upload, the X-File-Name header otherwise
FileName(q) == IF q.form = "file" THEN Basename(q.fileName) ELSE q.fileName

\* fileSize: req.file.size, or req.body.length, which a parsed JSON body has
\* only when it has such a property
SizeDefined(q) == q.data.type = "buffer" \/ q.data.hasLen
FileSize(q) == q.data.len

\* (mutant) the handler without its bucket lookup
postObjectNoBucketCheck(r) ==
    /\ pc[r] = "post"
    /\ LET q == reqs[r] IN
       IF q.form # "file" /\ FileName(q) = <<>>
       THEN /\ Done(r, Error(400, "X-File-Name header is required for raw data uploads"))
            /\ UNCHANGED loc
       ELSE /\ loc' = [loc EXCEPT ![r].filePath = PathJoin(BucketPath(r), FileName(q))]
            /\ Goto(r, "checkFind")
    /\ UNCHANGED <<apiKeys, buckets, dirs, files, now, reqs, entry>>

\* lines 151-165, 169-174: the bucket lookup, then the names up to the call of
\* checkStorageLimit
postObject(r) ==
    /\ pc[r] = "post"
    /\ LET q == reqs[r] IN
       IF ~bucketExists(q.accessId, q.bucketName)
       THEN /\ Done(r, Error(404, "Bucket not found"))
            /\ UNCHANGED loc
       ELSE IF q.form # "file" /\ FileName(q) = <<>>
       THEN /\ Done(r, Error(400, "X-File-Name header is required for raw data uploads"))
            /\ UNCHANGED loc
       ELSE /\ loc' = [loc EXCEPT ![r].filePath = PathJoin(BucketPath(r), FileName(q))]
            /\ Goto(r, "checkFind")
    /\ UNCHANGED <<apiKeys, buckets, dirs, files, now, reqs, entry>>

\* checkStorageLimit, lines 134-143: the counter is read and the new value is
\* computed and compared; BigInt(undefined) throws a TypeError
checkStorageLimitFind(r) ==
    /\ pc[r] = "checkFind"
    /\ LET q == reqs[r]
           apiKey == apiKeys[q.accessId]
           newStorageUsed == apiKey.storageUsed + FileSize(q) IN
       IF ~SizeDefined(q)
       THEN /\ Done(r, Error(500, "Failed to save data"))
            /\ UNCHANGED loc
       ELSE IF ExceedsLimit(newStorageUsed, apiKey.plan)
       THEN /\ Done(r, Error(403, "Storage limit exceeded"))
            /\ UNCHANGED loc
       ELSE /\ loc' = [loc EXCEPT ![r].newStorageUsed = newStorageUsed]
            /\ Goto(r, "checkUpdate")
    /\ UNCHANGED <<apiKeys, buckets, dirs, files, now, reqs, entry>>

\* (mutant) the counter is incremented in the store instead of being set to
\* the value that was compared with the limit
checkStorageLimitIncrement(r) ==
    /\ pc[r] = "checkUpdate"
    /\ apiKeys' = [apiKeys EXCEPT ![reqs[r].accessId].storageUsed = @ + FileSize(reqs[r])]
    /\ Goto(r, "writeFile")
    /\ UNCHANGED <<buckets, dirs, files, now, reqs, loc, entry>>

\* checkStorageLimit, lines 144-147: the value computed from the counter that
\* was read is stored
checkStorageLimitUpdate(r) ==
    /\ pc[r] = "checkUpdate"
    /\ apiKeys' = [apiKeys EXCEPT ![reqs[r].accessId].storageUsed = loc[r].newStorageUsed]
    /\ Goto(r, "writeFile")
    /\ UNCHANGED <<buckets, dirs, files, now, reqs, loc, entry>>

\* lines 167, 176: fs.writeFile(filePath, buffer)
writeFile(r) ==
    /\ pc[r] = "writeFile"
    /\ reqs[r].data.type = "buffer"
    /\ IF WriteFileOk(loc[r].filePath)
       THEN /\ files' = (loc[r].filePath :> reqs[r].data) @@ files
            /\ Goto(r, "readFile")
       ELSE /\ Done(r, Error(500, "Failed to save data"))
            /\ UNCHANGED files
    /\ UNCHANGED <<apiKeys, buckets, dirs, now, reqs, loc, entry>>

\* line 176 with a parsed JSON body: fs.writeFile throws a TypeError
writeFileObjectThrows(r) ==
    /\ pc[r] = "writeFile"
    /\ reqs[r].data.type = "json"
    /\ Done(r, Error(500, "Failed to save data"))
    /\ UNCHANGED <<apiKeys, buckets, dirs, files, now, reqs, loc, entry>>

\* line 176 with a parsed JSON body, on a Node that stores String(body)
writeFileObjectString(r) ==
    /\ pc[r] = "writeFile"
    /\ reqs[r].data.type = "json"
    /\ IF WriteFileOk(loc[r].filePath)
       THEN /\ files' = (loc[r].filePath :> ObjectString) @@ files
            /\ Goto(r, "readFile")
       ELSE /\ Done(r, Error(500, "Failed to save data"))
            /\ UNCHANGED files
    /\ UNCHANGED <<apiKeys, buckets, dirs, now, reqs, loc, entry>>

\* lines 181-184: the file is read back and its digest is the ETag
readFile(r) ==
    /\ pc[r] = "readFile"
    /\ IF loc[r].filePath \in DOMAIN files
       THEN Done(r, [status |-> 201, ETag |-> Md5(files[loc[r].filePath])])
       ELSE Done(r, Error(500, "Failed to save data"))
    /\ UNCHANGED <<apiKeys, buckets, dirs, files, now, reqs, loc, entry>>

-----------------------------------------------------------------------------
(* GET /buckets/:bucketName/objects/:objectKey, lines 195-210 *)

ObjectPath(r) == PathJoin(BucketPath(r), reqs[r].objectKey)

getObject(r) ==
    /\ pc[r] = "get"
    /\ IF ~bucketExists(reqs[r].accessId, reqs[r].bucketName)
       THEN /\ Done(r, Error(404, "Bucket not found"))
            /\ UNCHANGED loc
       ELSE /\ loc' = [loc EXCEPT ![r].filePath = ObjectPath(r)]
            /\ Goto(r, "access")
    /\ UNCHANGED <<apiKeys, buckets, dirs, files, now, reqs, entry>>

\* res.sendFile(path) throws a TypeError unless path is absolute or a root
\* option is given: filePath is path.join('storage', ...), a relative path
IsAbsolute(p) == p # <<>> /\ p[1] = "/"

\* lines 204-209: fs.access, then res.sendFile; whatever is thrown is answered
\* with 404 Object not found
access(r) ==
    /\ pc[r] = "access"
    /\ IF Exists(loc[r].filePath) /\ loc[r].filePath \in DOMAIN files
          /\ IsAbsolute(loc[r].filePath)
       THEN Done(r, [status |-> 200, body |-> files[loc[r].filePath]])
       ELSE Done(r, Error(404, "Object not found"))
    /\ UNCHANGED <<apiKeys, buckets, dirs, files, now, reqs, loc, entry>>

-----------------------------------------------------------------------------
(* DELETE /buckets/:bucketName/objects/:objectKey, lines 212-239 *)

deleteObject(r) ==
    /\ pc[r] = "delete"
    /\ IF ~bucketExists(reqs[r].accessId, reqs[r].bucketName)
       THEN /\ Done(r, Error(404, "Bucket not found"))
            /\ UNCHANGED loc
       ELSE /\ loc' = [loc EXCEPT ![r].filePath = ObjectPath(r)]
            /\ Goto(r, "stat")
    /\ UNCHANGED <<apiKeys, buckets, dirs, files, now, reqs, entry>>

\* stat with a missing file taken for a completed delete
statMissingOk(r) ==
    /\ pc[r] = "stat"
    /\ IF Exists(loc[r].filePath)
       THEN /\ loc' = [loc EXCEPT ![r].fileSize = StatSize(loc[r].filePath)]
            /\ Goto(r, "unlink")
       ELSE /\ Done(r, [status |-> 204])
            /\ UNCHANGED loc
    /\ UNCHANGED <<apiKeys, buckets, dirs, files, now, reqs, entry>>

\* line 222: fs.stat(filePath)
stat(r) ==
    /\ pc[r] = "stat"
    /\ IF Exists(loc[r].filePath)
       THEN /\ loc' = [loc EXCEPT ![r].fileSize = StatSize(loc[r].filePath)]
            /\ Goto(r, "unlink")
       ELSE /\ Done(r, Error(404, "Object not found"))
            /\ UNCHANGED loc
    /\ UNCHANGED <<apiKeys, buckets, dirs, files, now, reqs, entry>>

\* (mutant) a removal that takes a missing file for removed (fs.rm with force)
unlinkForce(r) ==
    /\ pc[r] = "unlink"
    /\ IF UnlinkOk(loc[r].filePath) \/ ~Exists(loc[r].filePath)
       THEN /\ files' = Without(files, loc[r].filePath)
            /\ Goto(r, "decrement")
       ELSE /\ Done(r, Error(404, "Object not found"))
            /\ UNCHANGED files
    /\ UNCHANGED <<apiKeys, buckets, dirs, now, reqs, loc, entry>>

\* line 223: fs.unlink(filePath)
unlink(r) ==
    /\ pc[r] = "unlink"
    /\ IF UnlinkOk(loc[r].filePath)
       THEN /\ files' = Without(files, loc[r].filePath)
            /\ Goto(r, "decrement")
       ELSE /\ Done(r, Error(404, "Object not found"))
            /\ UNCHANGED files
    /\ UNCHANGED <<apiKeys, buckets, dirs, now, reqs, loc, entry>>

\* lines 226-235: storageUsed: { decrement: fileStats.size }, one UPDATE
decrement(r) ==
    /\ pc[r] = "decrement"
    /\ apiKeys' = [apiKeys EXCEPT ![reqs[r].accessId].storageUsed = @ - loc[r].fileSize]
    /\ Done(r, [status |-> 204])
    /\ UNCHANGED <<buckets, dirs, files, now, reqs, loc, entry>>

-----------------------------------------------------------------------------
(* GET /buckets, lines 241-253 *)

listBuckets(r) ==
    /\ pc[r] = "list"
    /\ Done(r, [status |-> 200,
                Buckets |-> {b.name : b \in {c \in buckets : c.accessKeyId = reqs[r].accessId}}])
    /\ UNCHANGED <<apiKeys, buckets, dirs, files, now, reqs, loc, entry>>

-----------------------------------------------------------------------------
(* The requests the clients send *)

BucketName == <<"bk">>

\* timestamps: now, the oldest that is fresh at Time0, one older, and no number
Fresh == ToChars(Time0)
Edge == ToChars(Time0 - FreshnessWindow)
Stale == ToChars(Time0 - FreshnessWindow - 1)
Junk == <<"x">>

\* contents of 600, 500 and 10 million bytes, and what fills the free plan
\* after the first.  Uploads (multer, in memory) have no size limit; a raw body
\* is at most 10mb (line 67).  The counters are BigInt in the code; the byte
\* counts of the model stay far from the 32-bit range of the model checker.
Big60 == Buf("big60", 600000000)
Big50 == Buf("big50", 500000000)
Fill47 == Buf("fill47", STORAGE_LIMITS.free - 600000000)
Small == Buf("small", 10000000)

SecretOf(id) == Secrets[CHOOSE n \in 1..Len(AccessIds) : AccessIds[n] = id]

\* an object key that leaves the bucket and the namespace of the owner
Traversal(id, key) == <<"..", "..", id>> \o BucketName \o key

\* requests of owner id that carry its identity, a fresh timestamp and the
\* signature under its secret
Signed(id, method, objectKey, form, fileName, data) ==
    Request(method, id, SecretOf(id), Fresh, BucketName, objectKey, form, fileName, data)

NoData == Json(FALSE, 0)

Uploads(id, names, contents) ==
    {Signed(id, "POST", <<>>, "file", n, c) : n \in names, c \in contents}
RawWrites(id, names, contents) ==
    {Signed(id, "POST", <<>>, "raw", n, c) : n \in names, c \in contents}
Reads(id, keys) == {Signed(id, "GET", k, "none", <<>>, NoData) : k \in keys}
Deletes(id, keys) == {Signed(id, "DELETE", k, "none", <<>>, NoData) : k \in keys}
Lists(id) == {Signed(id, "LIST", <<>>, "none", <<>>, NoData)}

\* GET /buckets with every way the three headers can be wrong
AuthProbes ==
    {Request("LIST", "A", k, t, <<>>, <<>>, "none", <<>>, NoData) :
        k \in {"", "sA", "sB"}, t \in {<<>>, Fresh, Edge, Stale, Junk}}
    \cup {Request("LIST", "", "sA", Fresh, <<>>, <<>>, "none", <<>>, NoData)}
    \cup {Request("LIST", "C", k, Edge, <<>>, <<>>, "none", <<>>, NoData) : k \in {"sA", "sC"}}

\* a parsed JSON body {"length": -400000000}
NegativeLength == Json(TRUE, 0 - 400000000)
JsonWrites(id, names, bodies) ==
    {Signed(id, "POST", <<>>, "json", n, b) : n \in names, b \in bodies}

-----------------------------------------------------------------------------
(* Specifications *)

\* The server starts over a store that was provisioned through the admin API:
\* create-access-key twice (keys A and B, on the default plan) and
\* create-bucket for each, which made the directories of the buckets.
Init ==
    /\ apiKeys = [id \in {"A", "B"} |->
                    [secretAccessKey |-> SecretOf(id), plan |-> "free", storageUsed |-> 0]]
    /\ buckets = {[name |-> BucketName, accessKeyId |-> id] : id \in {"A", "B"}}
    /\ dirs = {<<>>, STORAGE_ROOT}
              \cup UNION {Prefixes(STORAGE_ROOT \o <<id>> \o BucketName) : id \in {"A", "B"}}
    /\ files = <<>>
    /\ now = Time0
    /\ reqs = [r \in Reqs |-> NoReq]
    /\ pc = [r \in Reqs |-> "new"]
    /\ loc = [r \in Reqs |-> NoLoc]
    /\ resp = [r \in Reqs |-> NoResp]
    /\ entry = [r \in Reqs |-> [used |-> <<>>, buckets |-> {}, files |-> <<>>]]

InFlight == {r \in Reqs : pc[r] \notin {"new", "done", "hung"}}

\* slots are taken in order
NextSlot(r) == pc[r] = "new" /\ \A s \in Reqs : s < r => pc[s] # "new"

ObjectStep(r) ==
    \/ postObject(r)
    \/ checkStorageLimitFind(r)
    \/ checkStorageLimitUpdate(r)
    \/ writeFile(r)
    \/ writeFileObjectThrows(r)
    \/ writeFileObjectString(r)
    \/ readFile(r)
    \/ getObject(r)
    \/ access(r)
    \/ deleteObject(r)
    \/ stat(r)
    \/ unlink(r)
    \/ decrement(r)

\* a file name under a directory that nothing has made
NoSuchDir == <<"sub", "x">>

\* a request whose signature is made with another owner's secret
BadHeaders ==
    {Request("DELETE", "B", "sA", Fresh, BucketName, <<"a">>, "none", <<>>, NoData)}

\* Concurrent requests: up to MaxConc requests, in flight together.
ConcRequests ==
    Uploads("A", {<<"a">>}, {Big60, Small})
    \cup Uploads("A", {<<"b">>}, {Big50})
    \cup RawWrites("A", {Traversal("B", <<"a">>)}, {Small})
    \cup JsonWrites("A", {<<"a">>}, {NegativeLength})
    \cup Reads("A", {<<"a">>})
    \cup Deletes("A", {<<"a">>, Traversal("B", <<"a">>)})
    \cup Uploads("B", {<<"a">>}, {Big60})
    \cup Deletes("B", {<<"a">>})
    \cup BadHeaders

ArriveConc(r) ==
    /\ r <= MaxConc
    /\ NextSlot(r)
    /\ \E q \in ConcRequests : authenticateRequest(r, q)

Next == \E r \in Reqs : ArriveConc(r) \/ ObjectStep(r)

Spec == Init /\ [][Next]_vars

\* Sequential requests: a request arrives when no other is in flight.
SeqRequests ==
    Uploads("A", {<<"a">>}, {Big60, Big50, Fill47})
    \cup Uploads("A", {<<"b">>}, {Big50})
    \cup JsonWrites("A", {<<"a">>}, {NegativeLength})
    \cup Reads("A", {<<"a">>})
    \cup Deletes("A", {<<"a">>})
    \cup RawWrites("B", {Traversal("A", <<"c">>)}, {Small})
    \cup RawWrites("A", {NoSuchDir}, {Small})

ArriveSeq(r) ==
    /\ InFlight = {}
    /\ NextSlot(r)
    /\ \E q \in SeqRequests : authenticateRequest(r, q)

NextSeq == \E r \in Reqs : ArriveSeq(r) \/ ObjectStep(r)

SpecSeq == Init /\ [][NextSeq]_vars

\* Authentication: requests with every combination of headers, the clock, and
\* the provisioning of a third key and its bucket.
NextAuth ==
    \/ \E plan \in Plans : createAccessKey(plan)
    \/ createBucket("C", BucketName)
    \/ Tick
    \/ \E r \in Reqs :
          \/ /\ r <= MaxConc
             /\ NextSlot(r)
             /\ \E q \in AuthProbes : authenticateRequest(r, q)
          \/ listBuckets(r)

SpecAuth == Init /\ [][NextAuth]_vars

-----------------------------------------------------------------------------
(* A metadata store that fails: a Prisma call of a request rejects.  The
   history field rejected of the request names the call. *)

\* A rejection that no try block of the application catches, out of an async
\* middleware or handler: Express 4 does not see the rejected promise and the
\* request gets no response; Express 5 passes it to the default error
\* handler, which answers 500.
Uncaught(r) ==
    \/ Goto(r, "hung")
    \/ Done(r, Error(500, "Internal Server Error"))

\* line 39: prisma.apiKey.findUnique rejects in authenticateRequest
findUniqueRejects(r, q) ==
    /\ pc[r] = "new"
    /\ q.accessId # "" /\ q.signKey # "" /\ q.timestamp # <<>>
    /\ reqs' = [reqs EXCEPT ![r] = q]
    /\ entry' = [entry EXCEPT ![r] = [used |-> Used, buckets |-> buckets, files |-> files]]
    /\ loc' = [loc EXCEPT ![r].rejected = "findUnique"]
    /\ Uncaught(r)
    /\ UNCHANGED <<apiKeys, buckets, dirs, files, now>>

\* lines 155, 199, 216: prisma.bucket.findFirst rejects in bucketExists, which
\* the handlers await before their try blocks
bucketExistsRejects(r) ==
    /\ pc[r] \in {"post", "get", "delete"}
    /\ loc' = [loc EXCEPT ![r].rejected = "bucketExists"]
    /\ Uncaught(r)
    /\ UNCHANGED <<apiKeys, buckets, dirs, files, now, reqs, entry>>

\* lines 134, 144: findUnique or update rejects in checkStorageLimit, inside
\* the try block of POST: the catch answers 500
checkStorageLimitRejects(r) ==
    /\ pc[r] \in {"checkFind", "checkUpdate"}
    /\ loc' = [loc EXCEPT ![r].rejected = "checkStorageLimit"]
    /\ Done(r, Error(500, "Failed to save data"))
    /\ UNCHANGED <<apiKeys, buckets, dirs, files, now, reqs, entry>>

\* lines 226-233: the update with the decrement rejects, after fs.unlink, inside
\* the try block of DELETE: the catch answers 404
decrementRejects(r) ==
    /\ pc[r] = "decrement"
    /\ loc' = [loc EXCEPT ![r].rejected = "decrement"]
    /\ Done(r, Error(404, "Object not found"))
    /\ UNCHANGED <<apiKeys, buckets, dirs, files, now, reqs, entry>>

FailRequests ==
    Uploads("A", {<<"a">>}, {Small})
    \cup Reads("A", {<<"a">>})
    \cup Deletes("A", {<<"a">>})

NextFail ==
    \E r \in Reqs :
        \/ /\ r <= MaxConc
           /\ NextSlot(r)
           /\ \E q \in FailRequests : authenticateRequest(r, q) \/ findUniqueRejects(r, q)
        \/ bucketExistsRejects(r)
        \/ checkStorageLimitRejects(r)
        \/ decrementRejects(r)
        \/ postObject(r)
        \/ checkStorageLimitFind(r)
        \/ checkStorageLimitUpdate(r)
        \/ writeFile(r)
        \/ readFile(r)
        \/ getObject(r)
        \/ access(r)
        \/ deleteObject(r)
        \/ stat(r)
        \/ unlink(r)
        \/ decrement(r)

SpecFail == Init /\ [][NextFail]_vars

\* Concurrent deletes: the first request is an upload; when it has completed,
\* up to MaxConc deletes arrive and run together.
NextDel ==
    \E r \in Reqs :
        \/ /\ r = 1
           /\ \E q \in Uploads("A", {<<"a">>}, {Big60, Small}) : authenticateRequest(r, q)
        \/ /\ 1 < r /\ r <= 1 + MaxConc
           /\ pc[1] = "done"
           /\ NextSlot(r)
           /\ \E q \in Deletes("A", {<<"a">>, <<"b">>}) : authenticateRequest(r, q)
        \/ postObject(r)
        \/ checkStorageLimitFind(r)
        \/ checkStorageLimitUpdate(r)
        \/ writeFile(r)
        \/ readFile(r)
        \/ deleteObject(r)
        \/ stat(r)
        \/ unlink(r)
        \/ decrement(r)

SpecDel == Init /\ [][NextDel]_vars

\* Provisioning while requests run, one request at a time: a third key is
\* created on a plan that the limit table does not name, buckets of a second
\* name are created, and requests go to that name before and after its bucket
\* exists.
NewBucket == <<"nb">>

\* the number of requests sent while the store is provisioned
MaxProv == 2

ToBucket(id, signKey, method, bucketName, objectKey, form, fileName, data) ==
    Request(method, id, signKey, Fresh, bucketName, objectKey, form, fileName, data)

ProvRequests ==
    Uploads("A", {<<"a">>}, {Small})
    \cup {ToBucket("A", "sA", "POST", NewBucket, <<>>, "file", <<"a">>, Small),
          ToBucket("A", "sA", "GET", NewBucket, <<"a">>, "none", <<>>, NoData),
          ToBucket("A", "sA", "DELETE", NewBucket, <<"a">>, "none", <<>>, NoData),
          ToBucket("A", "sB", "DELETE", NewBucket, <<"a">>, "none", <<>>, NoData),
          ToBucket("C", "sC", "POST", NewBucket, <<>>, "file", <<"a">>, Big60)}

NextProv ==
    \/ createAccessKey("gold")
    \/ \E id \in {"A", "C"} : createBucket(id, NewBucket)
    \/ \E r \in Reqs :
          \/ /\ r <= MaxProv
             /\ InFlight = {}
             /\ NextSlot(r)
             /\ \E q \in ProvRequests : authenticateRequest(r, q)
          \/ postObject(r)
          \/ checkStorageLimitFind(r)
          \/ checkStorageLimitUpdate(r)
          \/ writeFile(r)
          \/ readFile(r)
          \/ getObject(r)
          \/ access(r)
          \/ deleteObject(r)
          \/ stat(r)
          \/ unlink(r)
          \/ decrement(r)

SpecProv == Init /\ [][NextProv]_vars

-----------------------------------------------------------------------------
(* What is stored under an owner *)

UserRoot(id) == PathJoin(STORAGE_ROOT, <<id>>)

\* the paths of the objects in the namespace storage/id/...
ObjectsUnder(id) == {p \in DOMAIN files : IsPrefix(UserRoot(id), p)}

RECURSIVE SumLen(_)
SumLen(S) == IF S = {} THEN 0
             ELSE LET p == CHOOSE x \in S : TRUE IN files[p].len + SumLen(S \ {p})

StoredUnder(id) == SumLen(ObjectsUnder(id))

Limited(id) == HasKey(id) /\ HasLimit(apiKeys[id].plan)
LimitOf(id) == STORAGE_LIMITS[apiKeys[id].plan]

Arrived == {r \in Reqs : pc[r] # "new"}

-----------------------------------------------------------------------------
(* Claims checked under Spec: concurrent requests *)

\* C4: Reserve is atomic per credential: when every request so far is an upload
\* of one owner that passed the quota check and was stored (201), the objects
\* stored under that owner do not exceed the limit of its plan.
C4_ReserveAtomic ==
    \A id \in DOMAIN apiKeys :
        (/\ Limited(id)
         /\ Arrived # {}
         /\ \A r \in Arrived : /\ reqs[r] \in Uploads(id, {<<"a">>, <<"b">>}, {Big60, Big50})
                               /\ resp[r].status = 201)
        => StoredUnder(id) <= LimitOf(id)

\* C5: the bytes-used counter of every credential is never below zero.
C5_NeverNegative == \A id \in DOMAIN apiKeys : apiKeys[id].storageUsed >= 0

\* C6: the persisted bytes-used counter of a credential whose plan is in the
\* limit table is at most the limit of the plan, in every reachable state.
C6_CounterWithinLimit ==
    \A id \in DOMAIN apiKeys : Limited(id) => apiKeys[id].storageUsed <= LimitOf(id)

\* C6 witness: two uploads of one owner on a limited plan raced (both stored,
\* together more than the limit) and the counter is positive.
C6_Witness ==
    /\ Limited("A")
    /\ StoredUnder("A") > LimitOf("A")
    /\ apiKeys["A"].storageUsed > 0
    /\ \A r \in 1..2 : reqs[r].method = "POST" /\ resp[r].status = 201

\* C7: tenant isolation: no step of a request of one owner changes or removes
\* an object stored under another owner's namespace, or changes another
\* owner's bytes-used counter, whatever bucket name, key or file name it has.
C7_TenantIsolation ==
    [][\A r \in Reqs : pc'[r] # pc[r] =>
          \A other \in DOMAIN apiKeys \ {reqs'[r].accessId} :
              /\ apiKeys'[other].storageUsed = apiKeys[other].storageUsed
              /\ \A p \in ObjectsUnder(other) :
                    p \in DOMAIN files' /\ files'[p] = files[p]]_vars

-----------------------------------------------------------------------------
(* Claims checked under SpecAuth: the Request Authenticator *)

\* the timestamps the clients send, as the numbers they are the decimals of
StampValue(t) == CASE t = Fresh -> Time0
                   [] t = Edge -> Time0 - FreshnessWindow
                   [] t = Stale -> Time0 - FreshnessWindow - 1

\* the step in which request r arrives and goes through the authenticator
Authenticates(r) == pc[r] = "new" /\ pc'[r] # "new"

Rejected401(r) ==
    /\ pc'[r] = "done"
    /\ resp'[r].status = 401
    /\ UNCHANGED <<apiKeys, buckets, dirs, files, loc>>

\* C8: a request with the identity of a credential, a timestamp not older than
\* 15 minutes and the signature under the credential's secret is authenticated
\* and goes on to its handler; with the signature under another secret, or with
\* a timestamp older than 15 minutes, it is rejected with 401 and no handler runs.
C8_Authentication ==
    [][\A r \in Reqs : Authenticates(r) =>
          LET q == reqs'[r] IN
          (HasKey(q.accessId) /\ q.signKey # "" /\ q.timestamp \in {Fresh, Edge, Stale}) =>
              LET secret == apiKeys[q.accessId].secretAccessKey
                  age == now - StampValue(q.timestamp) IN
              /\ (q.signKey = secret /\ age <= FreshnessWindow)
                    => (pc'[r] = Route(q) /\ resp'[r] = NoResp)
              /\ (q.signKey # secret \/ age > FreshnessWindow) => Rejected401(r)]_vars

\* C8 witness: at the boundary of the window a request under the right secret
\* was let through to its handler, and one under another secret was rejected.
C8_Witness ==
    /\ now = Time0
    /\ reqs[1].timestamp = Edge /\ reqs[1].accessId = "A" /\ reqs[1].signKey = "sA"
    /\ pc[1] = "list"
    /\ reqs[2].timestamp = Edge /\ reqs[2].accessId = "A" /\ reqs[2].signKey = "sB"
    /\ resp[2] = Error(401, "Invalid signature")

-----------------------------------------------------------------------------
(* Claims checked under SpecSeq: sequential requests *)

\* request r has completed and no later request has arrived
JustCompleted(r) == pc[r] = "done" /\ \A s \in Reqs : s > r => pc[s] = "new"

\* a write whose content is a byte string
IsWrite(q) == q.method = "POST" /\ q.data.type = "buffer"

\* a key that is one path segment and names no directory
PlainKey(k) == Len(k) = 1 /\ k[1] \notin {"", ".", ".."}

HadBucket(r) == [name |-> reqs[r].bucketName, accessKeyId |-> reqs[r].accessId]
                    \in entry[r].buckets

QuotaRejection == Error(403, "Storage limit exceeded")

\* C1: in a sequential run, when a successful write has just completed, the
\* objects stored under any owner do not exceed the limit of the owner's plan.
C1_StoredWithinLimit ==
    \A r \in Reqs :
        (JustCompleted(r) /\ reqs[r].method = "POST" /\ resp[r].status = 201)
        => \A id \in DOMAIN apiKeys : Limited(id) => StoredUnder(id) <= LimitOf(id)

\* C2: writing content C1 and then C2 to the same (owner, bucket, key) leaves
\* C2 stored under the key, and the owner's counter has grown, since before
\* the first write, by the size of C2 only.
C2_Replace ==
    \A r \in Reqs : (r + 1 \in Reqs /\ JustCompleted(r + 1)) =>
        LET q1 == reqs[r]
            q2 == reqs[r + 1] IN
        (/\ IsWrite(q1) /\ IsWrite(q2)
         /\ q1.accessId = q2.accessId /\ q1.bucketName = q2.bucketName
         /\ FileName(q1) = FileName(q2)
         /\ resp[r].status = 201 /\ resp[r + 1].status = 201)
        => /\ files[loc[r + 1].filePath] = q2.data
           /\ Used[q2.accessId] - entry[r].used[q2.accessId] = q2.data.len

\* C3: a write whose size added to bytes-used exceeds the plan limit is
\* answered with StorageLimitExceeded, leaves every stored object (the one
\* under its key too) as it was and leaves the bytes-used counters unchanged.
C3_RejectedWriteNoEffect ==
    \A r \in Reqs :
        LET q == reqs[r] IN
        (/\ JustCompleted(r) /\ IsWrite(q) /\ HadBucket(r) /\ FileName(q) # <<>>
         /\ Limited(q.accessId)
         /\ entry[r].used[q.accessId] + q.data.len > LimitOf(q.accessId))
        => /\ resp[r] = QuotaRejection
           /\ files = entry[r].files
           /\ Used = entry[r].used

\* C3 witness: a write over a stored object was rejected and the object is there.
C3_Witness ==
    /\ JustCompleted(2)
    /\ reqs[1] \in Uploads("A", {<<"a">>}, {Big60}) /\ resp[1].status = 201
    /\ reqs[2] \in Uploads("A", {<<"a">>}, {Big50}) /\ resp[2] = QuotaRejection
    /\ files[<<"storage", "A", "bk", "a">>] = Big60
    /\ apiKeys["A"].storageUsed = Big60.len

\* C9: round trip: a write of content C to an existing bucket, within quota,
\* followed by a read of that key returns exactly C, and the fingerprint the
\* write returned is the digest of the bytes read.
C9_RoundTrip ==
    \A r \in Reqs : (r + 1 \in Reqs /\ JustCompleted(r + 1)) =>
        LET w == reqs[r]
            g == reqs[r + 1] IN
        (/\ IsWrite(w) /\ resp[r].status = 201
         /\ g.method = "GET" /\ g.accessId = w.accessId
         /\ g.bucketName = w.bucketName /\ g.objectKey = FileName(w))
        => /\ resp[r + 1].status = 200
           /\ resp[r + 1].body = w.data
           /\ resp[r].ETag = Md5(resp[r + 1].body)

\* C10: quota accounting of a sequential run, for writes and deletes on plain
\* keys of an existing bucket of an owner on a limited plan: a write of size s
\* succeeds iff bytes-used + s <= limit and then bytes-used is raised by s; a
\* rejected write gets StorageLimitExceeded and leaves bytes-used; a delete of
\* an existing object of size s succeeds and lowers bytes-used by s.
Accounting(r) ==
    LET q == reqs[r]
        id == q.accessId
        before == entry[r].used[id]
        after == apiKeys[id].storageUsed IN
    /\ (IsWrite(q) /\ PlainKey(FileName(q))) =>
          IF before + q.data.len <= LimitOf(id)
          THEN resp[r].status = 201 /\ after = before + q.data.len
          ELSE resp[r] = QuotaRejection /\ after = before
    /\ (q.method = "DELETE" /\ PlainKey(q.objectKey)
           /\ loc[r].filePath \in DOMAIN entry[r].files) =>
          /\ resp[r].status = 204
          /\ after = before - entry[r].files[loc[r].filePath].len

\* The scenario of the claim, in units of 10 000 000 bytes on the free plan
\* (1 073 741 824 bytes): a (60) is written, b (50) is rejected, a is deleted
\* and b is written.
Scenario ==
    /\ reqs[1] \in Uploads("A", {<<"a">>}, {Big60})
    /\ reqs[2] \in Uploads("A", {<<"b">>}, {Big50})
    /\ reqs[3] \in Deletes("A", {<<"a">>})
    /\ reqs[4] \in Uploads("A", {<<"b">>}, {Big50})
    /\ JustCompleted(4)

ObjectNotFound == Error(404, "Object not found")

\* C11: a delete of a key under which nothing is stored, in a bucket that
\* exists, is answered with ObjectNotFound and leaves the bytes-used counters
\* and every stored object as they were.
C11_DeleteMissing ==
    \A r \in Reqs :
        LET q == reqs[r] IN
        (/\ JustCompleted(r) /\ q.method = "DELETE" /\ HadBucket(r)
         /\ PathJoin(STORAGE_ROOT \o <<q.accessId>> \o q.bucketName, q.objectKey)
               \notin DOMAIN entry[r].files)
        => /\ resp[r] = ObjectNotFound
           /\ files = entry[r].files
           /\ Used = entry[r].used

\* C11 witness: with b stored and charged, a delete of a was answered with
\* ObjectNotFound.
C11_Witness ==
    /\ JustCompleted(2)
    /\ reqs[1] \in Uploads("A", {<<"b">>}, {Big50}) /\ resp[1].status = 201
    /\ reqs[2] \in Deletes("A", {<<"a">>}) /\ resp[2] = ObjectNotFound
    /\ DOMAIN files = {<<"storage", "A", "bk", "b">>}
    /\ apiKeys["A"].storageUsed = Big50.len

SaveFailure == Error(500, "Failed to save data")

\* C12: when a write of a byte string to an existing bucket has passed the
\* quota check and its write to the backing store has failed, the write is
\* answered with an error and the owner's bytes-used counter is back at the
\* value it had before the request.
C12_Rollback ==
    \A r \in Reqs :
        LET q == reqs[r] IN
        (/\ JustCompleted(r) /\ IsWrite(q) /\ HadBucket(r)
         /\ loc[r].filePath # <<>>
         /\ loc[r].filePath \notin DOMAIN files
         /\ resp[r] = SaveFailure)
        => Used[q.accessId] = entry[r].used[q.accessId]

-----------------------------------------------------------------------------
(* Claims checked under SpecProv: buckets and plans *)

BucketNotFound == Error(404, "Bucket not found")

IsObjectRequest(q) == q.method \in {"POST", "GET", "DELETE"}

\* the bucket directory has no record for the owner and bucket name of q
NoBucketRecord(q) == [name |-> q.bucketName, accessKeyId |-> q.accessId] \notin buckets

\* the headers of request r name a key that existed when r arrived and carry
\* the signature under that key's secret
ValidAuth(r) ==
    /\ reqs[r].accessId \in DOMAIN entry[r].used
    /\ reqs[r].signKey = SecretOf(reqs[r].accessId)
    /\ reqs[r].timestamp = Fresh

\* C13 as stated: a completed write, read or delete to a bucket name never
\* created for the claimed owner was answered with BucketNotFound, with valid
\* authentication or not.
C13_BucketNotFoundAnyAuth ==
    \A r \in Reqs :
        (pc[r] = "done" /\ IsObjectRequest(reqs[r]) /\ NoBucketRecord(reqs[r]))
        => resp[r] = BucketNotFound

\* C13 amended: a completed write, read or delete to a bucket name never
\* created for the claimed owner was answered with BucketNotFound when its
\* authentication was valid, and with 401 when it was not.
C13_BucketNotFound ==
    \A r \in Reqs :
        (pc[r] = "done" /\ IsObjectRequest(reqs[r]) /\ NoBucketRecord(reqs[r]))
        => IF ValidAuth(r) THEN resp[r] = BucketNotFound ELSE resp[r].status = 401

\* C13 witness: a delete with A's signature and a delete with another
\* signature went to a bucket name that only C has; the first got
\* BucketNotFound, the second 401.
C13_Witness ==
    /\ [name |-> NewBucket, accessKeyId |-> "C"] \in buckets
    /\ reqs[1] = ToBucket("A", "sA", "DELETE", NewBucket, <<"a">>, "none", <<>>, NoData)
    /\ resp[1] = BucketNotFound
    /\ reqs[2] = ToBucket("A", "sB", "DELETE", NewBucket, <<"a">>, "none", <<>>, NoData)
    /\ resp[2] = Error(401, "Invalid signature")
    /\ NoBucketRecord(reqs[1])

\* C14: the bucket check comes first: the handler step of an authenticated
\* write, read or delete whose (owner, bucket name) has no record answers
\* BucketNotFound and is the handler's only step: no object path has been
\* computed or looked at, and no object, directory or bytes-used counter is
\* changed.
C14_BucketCheckFirst ==
    [][\A r \in Reqs :
          (/\ pc[r] \in {"post", "get", "delete"}
           /\ pc'[r] # pc[r]
           /\ NoBucketRecord(reqs[r]))
          => /\ pc'[r] = "done"
             /\ resp'[r] = BucketNotFound
             /\ loc[r].filePath = <<>>
             /\ UNCHANGED <<apiKeys, buckets, dirs, files, loc>>]_vars

\* C14 witness: A has a stored and charged in bucket bk; its
\* delete of a in a bucket name it never created got BucketNotFound, and the
\* object and the counter are as they were.
C14_Witness ==
    /\ reqs[1] \in Uploads("A", {<<"a">>}, {Small}) /\ resp[1].status = 201
    /\ reqs[2] = ToBucket("A", "sA", "DELETE", NewBucket, <<"a">>, "none", <<>>, NoData)
    /\ resp[2] = BucketNotFound
    /\ NoBucketRecord(reqs[2])
    /\ DOMAIN files = {<<"storage", "A", "bk", "a">>}
    /\ apiKeys["A"].storageUsed = Small.len

-----------------------------------------------------------------------------
(* The authenticator's effects, checked under SpecAuth *)

\* C15: the step in which a request goes through the authenticator, accepted
\* or rejected, leaves the credential store, the bucket directory and the
\* backing store, its set of directories included, as they were.
C15_AuthenticatorReadOnly ==
    [][\A r \in Reqs : Authenticates(r) => UNCHANGED <<apiKeys, buckets, dirs, files>>]_vars

-----------------------------------------------------------------------------
(* Plans without a limit, checked under SpecProv *)

\* C16: for a credential whose plan has no entry in the limit table no write
\* is accepted and the bytes-used counter is never raised.
C16_NoLimitNoWrite ==
    \A id \in DOMAIN apiKeys :
        ~Limited(id) =>
            /\ apiKeys[id].storageUsed = 0
            /\ \A r \in Reqs :
                  (reqs[r].accessId = id /\ reqs[r].method = "POST") => resp[r].status # 201

-----------------------------------------------------------------------------
(* Failures of the metadata store, checked under SpecFail *)

\* C17: a request one of whose metadata-store calls was rejected (the
\* credential lookup, the bucket check, Reserve, or the Release after the
\* removal of a delete) is not left without a response, and its response is
\* a server error.
C17_StoreFailureIsServerError ==
    \A r \in Reqs :
        loc[r].rejected # "" =>
            /\ pc[r] # "hung"
            /\ pc[r] = "done" => resp[r].status >= 500

-----------------------------------------------------------------------------
(* Concurrent requests on one object, checked under Spec *)

\* request s is a write of a byte string to the (owner, bucket, key) of r
SameObjectWrite(r, s) ==
    /\ IsWrite(reqs[s])
    /\ reqs[s].accessId = reqs[r].accessId
    /\ reqs[s].bucketName = reqs[r].bucketName
    /\ FileName(reqs[s]) = FileName(reqs[r])

\* C18: when every request so far is a write of a byte string to one (owner,
\* bucket, key) with a plain key, the fingerprint that a successful write
\* returned is the digest of the content of that write.
C18_FingerprintOfOwnContent ==
    \A r \in Arrived :
        (/\ PlainKey(FileName(reqs[r]))
         /\ \A s \in Arrived : SameObjectWrite(r, s)
         /\ resp[r].status = 201)
        => resp[r].ETag = Md5(reqs[r].data)

-----------------------------------------------------------------------------
(* Concurrent deletes of one object, checked under SpecDel *)

\* the deletes of the object that request 1 stored
DeletesOfObject ==
    {r \in Arrived \ {1} : reqs[r] \in Deletes(reqs[1].accessId, {FileName(reqs[1])})}

Succeeded == {r \in DeletesOfObject : resp[r].status = 204}

\* C19: of the concurrent deletes of one stored object at most one succeeds
\* and the owner's counter is never lowered by more than the object's size;
\* when all of them have completed, exactly one has succeeded, the others
\* were answered with ObjectNotFound and the counter is lower by the object's
\* size than when the object was stored.
C19_ReleaseOnce ==
    (resp[1].status = 201 /\ DeletesOfObject # {}) =>
        LET id == reqs[1].accessId
            size == reqs[1].data.len
            charged == entry[1].used[id] + size IN
        /\ Cardinality(Succeeded) <= 1
        /\ apiKeys[id].storageUsed >= charged - size
        /\ (\A r \in DeletesOfObject : pc[r] = "done") =>
              /\ Cardinality(Succeeded) = 1
              /\ \A r \in DeletesOfObject \ Succeeded : resp[r] = ObjectNotFound
              /\ apiKeys[id].storageUsed = charged - size

\* C19 witness: two deletes of the stored object both passed fs.stat before
\* either removed it; one succeeded, the other got ObjectNotFound, and the
\* counter is back at zero.
C19_Witness ==
    /\ reqs[1] \in Uploads("A", {<<"a">>}, {Big60}) /\ resp[1].status = 201
    /\ DeletesOfObject = {2, 3}
    /\ loc[2].fileSize = Big60.len /\ loc[3].fileSize = Big60.len
    /\ resp[2] = ObjectNotFound
    /\ resp[3].status = 204
    /\ files = <<>>
    /\ apiKeys["A"].storageUsed = 0

-----------------------------------------------------------------------------
(* The counter against what is stored, checked under SpecSeq *)

\* C20: between the requests of a sequential run, the bytes-used counter of
\* every owner is at least the sum of the sizes of the objects stored under
\* that owner.
C20_NeverUnderCounts ==
    InFlight = {} =>
        \A id \in DOMAIN apiKeys : apiKeys[id].storageUsed >= StoredUnder(id)

====
